---- MODULE Spec2Model ----
(***************************************************************************)
(* Model of the Excel chat add-in's DataService: the grid classification   *)
(* engine (analyzeAdvancedTableStructure and its helpers) and the read of  *)
(* the worksheet that feeds it (readCurrentWorksheetDataEnhanced with the  *)
(* sampling of oversized ranges).                                          *)
(*                                                                         *)
(* JavaScript strings are sequences of one-character strings, so that      *)
(* trim, the regular expressions, parseFloat and Number are computed on    *)
(* the characters.  A JavaScript value is a record [k, s, n]: k is the     *)
(* kind ("null", "undef", "str", "num", "bool", "obj"), s the characters   *)
(* of a string, n the number (or 0/1 for a boolean).  Numbers are          *)
(* integers: the alphabet of the model's strings that are parsed as        *)
(* numbers has no '.', no exponent and no radix prefix.                    *)
(***************************************************************************)
EXTENDS Integers, Sequences, FiniteSets, TLC

VARIABLES
    rawValues,            \* range.values: the grid handed to the classifier
    rawFormulas,          \* range.formulas, same shape
    numberFormats,        \* range.numberFormat, same shape
    engineDates,          \* non-ISO strings the engine's Date.parse accepts
    result,               \* value returned by analyzeAdvancedTableStructure
    analyzed,             \* TRUE once analyzeAdvancedTableStructure returned
    headerRowFound,       \* local of analyzeAdvancedTableStructure, -1 before it is set
    cellValue,            \* first argument of a call of detectCellType
    cellFormat,           \* second argument of that call
    cellType,             \* what the call returned, "none" before it returns
    selectedRange,        \* workbook.getSelectedRange()
    usedRange,            \* worksheet.getUsedRange()
    shouldUseSelection,   \* argument of the last read
    origRange,            \* the range the last read decided on (before sampling)
    range,                \* the range whose values the last read classified
    isSelection,          \* local of the last read
    isSampled,            \* local of the last read
    readDone,             \* TRUE once a read resolved
    readClassified,       \* the last resolved read called analyzeAdvancedTableStructure
    lastReadRejected,     \* the last read rejected instead of resolving
    currentWorksheetData, \* DataService.currentWorksheetData
    userInput,            \* trimmed text of the input box: 0 when empty, else the number of the message
    controlsEnabled,      \* the input box and the send button are not disabled
    loadingShown,         \* the loading overlay is displayed
    conversationHistory,  \* AIService.conversationHistory
    added,                \* the entries passed to addToConversationHistory since the last clear
    chatSession,          \* AIService.chatSession: 0 for null, else the number of the session
    sessions,             \* the chat sessions started so far and what was sent on each
    sends,                \* the calls of handleSendMessage: where each one stands
    started               \* how many messages were sent so far

classifyVars == <<rawValues, rawFormulas, numberFormats, engineDates, result, analyzed,
                  headerRowFound, cellValue, cellFormat, cellType>>
readVars == <<selectedRange, usedRange, shouldUseSelection, origRange, range,
              isSelection, isSampled, readDone, readClassified, lastReadRejected,
              currentWorksheetData>>
chatVars == <<userInput, controlsEnabled, loadingShown, conversationHistory, added,
              chatSession, sessions, sends, started>>
vars == <<rawValues, rawFormulas, numberFormats, engineDates, result, analyzed,
          headerRowFound, cellValue, cellFormat, cellType,
          selectedRange, usedRange, shouldUseSelection, origRange, range,
          isSelection, isSampled, readDone, readClassified, lastReadRejected,
          currentWorksheetData,
          userInput, controlsEnabled, loadingShown, conversationHistory, added,
          chatSession, sessions, sends, started>>

----------------------------------------------------------------------------
(* JavaScript values *)

Null == [k |-> "null", s |-> <<>>, n |-> 0]
Undefined == [k |-> "undef", s |-> <<>>, n |-> 0]
Str(chars) == [k |-> "str", s |-> chars, n |-> 0]
Num(i) == [k |-> "num", s |-> <<>>, n |-> i]
Bool(b) == [k |-> "bool", s |-> <<>>, n |-> IF b THEN 1 ELSE 0]
NaN == [k |-> "nan", s |-> <<>>, n |-> 0]
\* a value that is neither a primitive nor null: an object or an array
Obj == [k |-> "obj", s |-> <<>>, n |-> 0]

\* ToBoolean: what `!x`, `x && y`, `x || y` and `if (x)` test
Truthy(v) ==
    CASE v.k = "str" -> v.s # <<>>
      [] v.k = "num" -> v.n # 0
      [] v.k = "bool" -> v.n = 1
      [] v.k = "obj" -> TRUE
      [] OTHER -> FALSE

Digits == <<"0", "1", "2", "3", "4", "5", "6", "7", "8", "9">>
UpperChars == <<"A", "B", "C", "D", "E", "F", "G", "H", "I", "J", "K", "L", "M",
                "N", "O", "P", "Q", "R", "S", "T", "U", "V", "W", "X", "Y", "Z">>
LowerChars == <<"a", "b", "c", "d", "e", "f", "g", "h", "i", "j", "k", "l", "m",
                "n", "o", "p", "q", "r", "s", "t", "u", "v", "w", "x", "y", "z">>

IsDigit(c) == \E i \in 1..10 : Digits[i] = c
DigitVal(c) == (CHOOSE i \in 1..10 : Digits[i] = c) - 1
IsUpper(c) == \E i \in 1..26 : UpperChars[i] = c
IsWhitespace(c) == c \in {" ", "\t", "\n", "\r"}

\* the case folding of a regular expression's /i flag
ToLower(c) == IF IsUpper(c) THEN LowerChars[CHOOSE i \in 1..26 : UpperChars[i] = c] ELSE c

\* String.prototype.trim
RECURSIVE TrimStart(_)
TrimStart(s) ==
    IF s # <<>> /\ IsWhitespace(Head(s)) THEN TrimStart(Tail(s)) ELSE s

RECURSIVE TrimEnd(_)
TrimEnd(s) ==
    IF s # <<>> /\ IsWhitespace(s[Len(s)]) THEN TrimEnd(SubSeq(s, 1, Len(s) - 1)) ELSE s

Trim(s) == TrimEnd(TrimStart(s))

\* String.prototype.startsWith
StartsWith(s, p) == Len(s) >= Len(p) /\ SubSeq(s, 1, Len(p)) = p

\* String.prototype.includes
Includes(s, p) ==
    \E i \in 1..(Len(s) - Len(p) + 1) : SubSeq(s, i, i + Len(p) - 1) = p

LowerCase(s) == [i \in 1..Len(s) |-> ToLower(s[i])]

\* /^word/i.test(s) and /word/i.test(s) for a literal word in lower case
StartsWithCI(s, word) == StartsWith(LowerCase(s), word)
IncludesCI(s, word) == Includes(LowerCase(s), word)

\* the number of leading decimal digits of s
RECURSIVE DigitRun(_)
DigitRun(s) == IF s # <<>> /\ IsDigit(Head(s)) THEN 1 + DigitRun(Tail(s)) ELSE 0

\* the value of a sequence of decimal digits
RECURSIVE DigitsValue(_)
DigitsValue(s) ==
    IF s = <<>> THEN 0 ELSE 10 * DigitsValue(SubSeq(s, 1, Len(s) - 1)) + DigitVal(s[Len(s)])

\* the decimal digits of a natural number
RECURSIVE NatToChars(_)
NatToChars(i) ==
    IF i < 10 THEN <<Digits[i + 1]>> ELSE NatToChars(i \div 10) \o <<Digits[(i % 10) + 1]>>

\* String(v)
JsString(v) ==
    CASE v.k = "str" -> v.s
      [] v.k = "num" -> IF v.n < 0 THEN <<"-">> \o NatToChars(-v.n) ELSE NatToChars(v.n)
      [] v.k = "bool" -> IF v.n = 1 THEN <<"t", "r", "u", "e">> ELSE <<"f", "a", "l", "s", "e">>
      [] v.k = "null" -> <<"n", "u", "l", "l">>
      [] v.k = "nan" -> <<"N", "a", "N">>
      [] v.k = "obj" -> <<"[", "o", "b", "j", "e", "c", "t", " ", "O", "b", "j", "e", "c", "t", "]">>
      [] OTHER -> <<"u", "n", "d", "e", "f", "i", "n", "e", "d">>

\* a signed run of digits at the start of s: NaN when there is no digit
SignedPrefix(s) ==
    LET neg == s # <<>> /\ Head(s) = "-"
        body == IF s # <<>> /\ Head(s) \in {"-", "+"} THEN Tail(s) ELSE s
        k == DigitRun(body)
        mag == DigitsValue(SubSeq(body, 1, k))
    IN  IF k = 0 THEN [v |-> NaN, rest |-> s]
        ELSE [v |-> Num(IF neg THEN -mag ELSE mag), rest |-> SubSeq(body, k + 1, Len(body))]

\* parseFloat(v): the longest numeric prefix of String(v) after leading whitespace
ParseFloat(v) == SignedPrefix(TrimStart(JsString(v))).v

\* Number(v): the whole trimmed string must be a numeral; "" is 0
ToNumber(v) ==
    CASE v.k = "num" -> v
      [] v.k = "nan" -> NaN
      [] v.k = "bool" -> Num(v.n)
      [] v.k = "null" -> Num(0)
      [] v.k = "str" ->
           LET t == Trim(v.s)
               p == SignedPrefix(t)
           IN  IF t = <<>> THEN Num(0)
               ELSE IF p.v.k = "num" /\ p.rest = <<>> THEN p.v ELSE NaN
      [] OTHER -> NaN

\* the globals isNaN(v) and isFinite(v)
IsNaN(v) == ToNumber(v).k = "nan"
IsFinite(v) == ToNumber(v).k = "num"

\* the ISO date form YYYY-MM-DD, which every engine's Date.parse accepts
IsIsoDate(s) ==
    /\ Len(s) = 10
    /\ \A i \in {1, 2, 3, 4, 6, 7, 9, 10} : IsDigit(s[i])
    /\ s[5] = "-" /\ s[8] = "-"
    /\ DigitsValue(SubSeq(s, 6, 7)) \in 1..12
    /\ DigitsValue(SubSeq(s, 9, 10)) \in 1..31

\* !isNaN(Date.parse(s)): a string that is not in the ISO form falls back to
\* heuristics of the engine, so its outcome is the engine's choice
DateParses(s) == IsIsoDate(s) \/ s \in engineDates

\* /^[1-4]Q\d{2}$/i.test(s)
IsQuarterLabel(s) ==
    /\ Len(s) = 4
    /\ s[1] \in {"1", "2", "3", "4"}
    /\ ToLower(s[2]) = "q"
    /\ IsDigit(s[3]) /\ IsDigit(s[4])

----------------------------------------------------------------------------
(* Grids: an argument that is a two-dimensional array, or absent *)

NullGrid == [k |-> "null", rows |-> <<>>]
Grid(rows) == [k |-> "array", rows |-> rows]

\* the length of the longest row
MaxRowLen(g) ==
    IF g.rows = <<>> THEN 0
    ELSE CHOOSE m \in {Len(g.rows[r]) : r \in 1..Len(g.rows)} :
             \A r \in 1..Len(g.rows) : Len(g.rows[r]) <= m

\* the positions (row, column), from 1, of a grid
Positions(g) == {p \in (1..Len(g.rows)) \X (1..MaxRowLen(g)) : p[2] <= Len(g.rows[p[1]])}

\* the cells of a grid in the order forEach visits them
RECURSIVE Flatten(_)
Flatten(rows) == IF rows = <<>> THEN <<>> ELSE Head(rows) \o Flatten(Tail(rows))

\* Set insertion order: Array.from(new Set(items))
RECURSIVE Distinct(_, _)
Distinct(acc, items) ==
    IF items = <<>> THEN acc
    ELSE Distinct(IF \E i \in 1..Len(acc) : acc[i] = Head(items) THEN acc
                  ELSE Append(acc, Head(items)), Tail(items))

\* numberFormats && numberFormats[rowIndex] && numberFormats[rowIndex][colIndex]
FormatAt(nf, r, c) ==
    IF nf.k # "array" THEN Null
    ELSE IF r > Len(nf.rows) THEN Undefined
    ELSE IF c > Len(nf.rows[r]) THEN Undefined
    ELSE nf.rows[r][c]

----------------------------------------------------------------------------
(* DataService: cell classification *)

\* DetectNumberType testing the percent sign before the currency markers
DetectNumberTypePercentFirst(format) ==
    IF Truthy(format)
    THEN IF format.k # "str" THEN "TypeError"
         ELSE IF Includes(format.s, <<"%">>) THEN "percentage"
         ELSE IF Includes(format.s, <<"$">>)
                 \/ Includes(format.s, <<"c", "u", "r", "r", "e", "n", "c", "y">>)
              THEN "currency"
         ELSE IF Includes(format.s, <<"d">>) \/ Includes(format.s, <<"m">>)
                 \/ Includes(format.s, <<"y">>)
              THEN "date"
         ELSE "number"
    ELSE "number"

DetectNumberType(format) ==
    IF Truthy(format)
    THEN IF format.k # "str" THEN "TypeError"
         ELSE IF Includes(format.s, <<"$">>)
                 \/ Includes(format.s, <<"c", "u", "r", "r", "e", "n", "c", "y">>)
              THEN "currency"
         ELSE IF Includes(format.s, <<"%">>) THEN "percentage"
         ELSE IF Includes(format.s, <<"d">>) \/ Includes(format.s, <<"m">>)
                 \/ Includes(format.s, <<"y">>)
              THEN "date"
         ELSE "number"
    ELSE "number"

\* detectCellType without the `value === ''` test of its first line
detectCellTypeNoEmptyString(value, format) ==
    IF value.k \in {"null", "undef"} THEN "empty"
    ELSE IF value.k = "bool" THEN "boolean"
    ELSE IF value.k \in {"num", "nan"} THEN DetectNumberType(format)
    ELSE IF value.k = "str" /\ DateParses(value.s) THEN "date"
    ELSE IF value.k = "str" /\ ParseFloat(value).k # "nan" /\ IsFinite(value) THEN "number"
    ELSE "text"

detectCellType(value, format) ==
    IF value.k \in {"null", "undef"} \/ value = Str(<<>>) THEN "empty"
    ELSE IF value.k = "bool" THEN "boolean"
    ELSE IF value.k \in {"num", "nan"} THEN DetectNumberType(format)
    ELSE IF value.k = "str" /\ DateParses(value.s) THEN "date"
    ELSE IF value.k = "str" /\ ParseFloat(value).k # "nan" /\ IsFinite(value) THEN "number"
    ELSE "text"

\* the keys of the `types` object
HistogramTags == {"text", "number", "date", "currency", "percentage", "boolean"}

CountTag(values, nf, tag) ==
    Cardinality({p \in Positions(values) :
        detectCellType(values.rows[p[1]][p[2]], FormatAt(nf, p[1], p[2])) = tag})

analyzeDataTypes(values, nf) ==
    [tag \in HistogramTags |-> CountTag(values, nf, tag)]

----------------------------------------------------------------------------
(* DataService: formulas and number formats *)

IsFormulaText(cell) == cell.k = "str" /\ StartsWith(cell.s, <<"=">>)

\* the number of leading upper-case letters of s
RECURSIVE UpperRun(_)
UpperRun(s) == IF s # <<>> /\ IsUpper(Head(s)) THEN 1 + UpperRun(Tail(s)) ELSE 0

\* cell.match(/([A-Z]+)\(/g), each match without its '('
RECURSIVE FunctionMatches(_)
FunctionMatches(s) ==
    IF s = <<>> THEN <<>>
    ELSE LET k == UpperRun(s)
         IN  IF k = 0 THEN FunctionMatches(Tail(s))
             ELSE IF Len(s) > k /\ s[k + 1] = "("
                  THEN <<SubSeq(s, 1, k)>> \o FunctionMatches(SubSeq(s, k + 2, Len(s)))
                  ELSE FunctionMatches(SubSeq(s, k + 1, Len(s)))

RECURSIVE AllFunctionMatches(_)
AllFunctionMatches(cells) ==
    IF cells = <<>> THEN <<>>
    ELSE (IF IsFormulaText(Head(cells)) THEN FunctionMatches(Head(cells).s) ELSE <<>>)
         \o AllFunctionMatches(Tail(cells))

\* analyzeFormulas with an array in place of the Set of function names
analyzeFormulasKeepingRepeats(formulas) ==
    IF formulas.k # "array" THEN [hasFormulas |-> FALSE, formulaCount |-> 0, types |-> <<>>]
    ELSE LET formulaCount == Cardinality({p \in Positions(formulas) :
                                 IsFormulaText(formulas.rows[p[1]][p[2]])})
         IN  [hasFormulas |-> formulaCount > 0,
              formulaCount |-> formulaCount,
              types |-> AllFunctionMatches(Flatten(formulas.rows))]

analyzeFormulas(formulas) ==
    IF formulas.k # "array" THEN [hasFormulas |-> FALSE, formulaCount |-> 0, types |-> <<>>]
    ELSE LET formulaCount == Cardinality({p \in Positions(formulas) :
                                 IsFormulaText(formulas.rows[p[1]][p[2]])})
         IN  [hasFormulas |-> formulaCount > 0,
              formulaCount |-> formulaCount,
              types |-> Distinct(<<>>, AllFunctionMatches(Flatten(formulas.rows)))]

\* the default number format, 'General'
General == Str(<<"G", "e", "n", "e", "r", "a", "l">>)

\* analyzeNumberFormats without the comparison with 'General'
analyzeNumberFormatsKeepingGeneral(nf) ==
    IF nf.k # "array" THEN [hasFormatting |-> FALSE, types |-> <<>>]
    ELSE LET kept == SelectSeq(Flatten(nf.rows), LAMBDA f : Truthy(f))
             formatTypes == Distinct(<<>>, kept)
         IN  [hasFormatting |-> Len(formatTypes) > 0, types |-> formatTypes]

analyzeNumberFormats(nf) ==
    IF nf.k # "array" THEN [hasFormatting |-> FALSE, types |-> <<>>]
    ELSE LET kept == SelectSeq(Flatten(nf.rows), LAMBDA f : Truthy(f) /\ f # General)
             formatTypes == Distinct(<<>>, kept)
         IN  [hasFormatting |-> Len(formatTypes) > 0, types |-> formatTypes]

----------------------------------------------------------------------------
(* DataService: rows *)

\* the alternatives of /^(total|sum|grand total|net|aggregate|consolidated)/i
TotalKeywords ==
    {<<"t", "o", "t", "a", "l">>,
     <<"s", "u", "m">>,
     <<"g", "r", "a", "n", "d", " ", "t", "o", "t", "a", "l">>,
     <<"n", "e", "t">>,
     <<"a", "g", "g", "r", "e", "g", "a", "t", "e">>,
     <<"c", "o", "n", "s", "o", "l", "i", "d", "a", "t", "e", "d">>}

\* the alternatives of /subtotal|sub-total|sub total/i
SubtotalKeywords ==
    {<<"s", "u", "b", "t", "o", "t", "a", "l">>,
     <<"s", "u", "b", "-", "t", "o", "t", "a", "l">>,
     <<"s", "u", "b", " ", "t", "o", "t", "a", "l">>}

\* the alternatives of the six keyPatterns
KeyPatterns ==
    {<<"r", "e", "v", "e", "n", "u", "e">>,
     <<"s", "a", "l", "e", "s">>,
     <<"i", "n", "c", "o", "m", "e">>,
     <<"e", "x", "p", "e", "n", "s", "e">>,
     <<"c", "o", "s", "t">>,
     <<"o", "p", "e", "x">>,
     <<"c", "a", "p", "e", "x">>,
     <<"p", "r", "o", "f", "i", "t">>,
     <<"l", "o", "s", "s">>,
     <<"e", "b", "i", "t", "d", "a">>,
     <<"e", "b", "i", "t">>,
     <<"c", "a", "s", "h">>,
     <<"f", "l", "o", "w">>,
     <<"f", "c", "f">>,
     <<"m", "a", "r", "g", "i", "n">>,
     <<"r", "a", "t", "i", "o">>,
     <<"g", "r", "o", "w", "t", "h">>,
     <<"c", "h", "a", "n", "g", "e">>}

\* isLikelyTotalRow with a pattern that is not anchored at the start
isLikelyTotalRowUnanchored(label) ==
    label.k = "str" /\ \E w \in TotalKeywords : IncludesCI(Trim(label.s), w)

isLikelyTotalRow(label) ==
    label.k = "str" /\ \E w \in TotalKeywords : StartsWithCI(Trim(label.s), w)

isLikelySubtotalRow(label) ==
    label.k = "str" /\ \E w \in SubtotalKeywords : IncludesCI(Trim(label.s), w)

isKeyFinancialRow(label) ==
    label.k = "str" /\ \E w \in KeyPatterns : IncludesCI(label.s, w)

\* categorizeRowLabel with its typeof test inverted
categorizeRowLabelInverted(label) ==
    IF label.k = "str" THEN Str(<<"d", "a", "t", "a">>) ELSE Str(Trim(JsString(label)))

categorizeRowLabel(label) ==
    IF label.k # "str" THEN Str(<<"d", "a", "t", "a">>) ELSE Str(Trim(label.s))

hasQuarterlyPattern(headers) ==
    \E j \in 1..Len(headers) : IsQuarterLabel(JsString(headers[j]))

\* parseFloat(value) || value
QuarterValue(value) ==
    LET parsed == ParseFloat(value)
    IN  IF Truthy(parsed) THEN parsed ELSE value

\* QuarterCell reading rowData.values[index], without the offset of the label
QuarterCellNoOffset(rowData, index) ==
    IF index >= 0 /\ index < Len(rowData.values)
    THEN rowData.values[index + 1] ELSE Undefined

\* rowData.values[index - 1], undefined outside the array
QuarterCell(rowData, index) ==
    IF index - 1 >= 0 /\ index - 1 < Len(rowData.values)
    THEN rowData.values[index] ELSE Undefined

\* the points pushed by headers.forEach from the 0-based index on
RECURSIVE QuarterPoints(_, _, _)
QuarterPoints(rowData, headers, index) ==
    IF index >= Len(headers) THEN <<>>
    ELSE LET header == headers[index + 1]
             value == QuarterCell(rowData, index)
             pushed == /\ header.k = "str" /\ IsQuarterLabel(header.s)
                       /\ value.k \notin {"null", "undef"} /\ value # Str(<<>>)
         IN  (IF pushed
              THEN <<[quarter |-> header, value |-> QuarterValue(value), columnIndex |-> index]>>
              ELSE <<>>) \o QuarterPoints(rowData, headers, index + 1)

extractQuarterlyData(rowData, headers) ==
    [label |-> rowData.label,
     labelType |-> rowData.category,
     quarters |-> QuarterPoints(rowData, headers, 0),
     isTotal |-> rowData.isTotal]

----------------------------------------------------------------------------
(* DataService: the table structure *)

\* one cell of cleanData: a trimmed string (obj FALSE, the string in value)
\* or the enhanced object (obj TRUE)
CleanString(chars) ==
    [obj |-> FALSE, value |-> Str(chars), format |-> Undefined,
     isFormula |-> FALSE, detectedType |-> "text"]

\* CleanCell keeping a string cell as it is, without trim()
CleanCellNoTrim(values, formulas, nf, r, c) ==
    LET cell == values.rows[r][c]
        format == FormatAt(nf, r, c)
    IN  IF cell.k \in {"null", "undef"} THEN CleanString(<<>>)
        ELSE IF cell.k = "str" THEN CleanString(cell.s)
        ELSE [obj |-> TRUE, value |-> cell, format |-> format,
              isFormula |-> /\ formulas.k = "array"
                            /\ r <= Len(formulas.rows)
                            /\ c <= Len(formulas.rows[r])
                            /\ Truthy(formulas.rows[r][c])
                            /\ IsFormulaText(formulas.rows[r][c]),
              detectedType |-> detectCellType(cell, format)]

CleanCell(values, formulas, nf, r, c) ==
    LET cell == values.rows[r][c]
        format == FormatAt(nf, r, c)
    IN  IF cell.k \in {"null", "undef"} THEN CleanString(<<>>)
        ELSE IF cell.k = "str" THEN CleanString(Trim(cell.s))
        ELSE [obj |-> TRUE, value |-> cell, format |-> format,
              isFormula |-> /\ formulas.k = "array"
                            /\ r <= Len(formulas.rows)
                            /\ c <= Len(formulas.rows[r])
                            /\ Truthy(formulas.rows[r][c])
                            /\ IsFormulaText(formulas.rows[r][c]),
              detectedType |-> detectCellType(cell, format)]

CleanData(values, formulas, nf) ==
    [r \in 1..Len(values.rows) |->
        [c \in 1..Len(values.rows[r]) |-> CleanCell(values, formulas, nf, r, c)]]

\* typeof cell === 'object' ? cell.value : cell
CellValue(cell) == cell.value

IsHeaderLike(row) ==
    LET quarterlyPattern == Cardinality({c \in 1..Len(row) :
            CellValue(row[c]).k = "str" /\ IsQuarterLabel(CellValue(row[c]).s)})
        textCellCount == Cardinality({c \in 1..Len(row) :
            /\ CellValue(row[c]).k = "str"
            /\ Len(CellValue(row[c]).s) > 0
            /\ IsNaN(CellValue(row[c]))})
    IN  quarterlyPattern >= 2 \/ textCellCount >= 3

\* findHeaderRow scanning every row instead of the first five
findHeaderRowUncapped(cleanData) ==
    LET hits == {i \in 0..(Len(cleanData) - 1) : IsHeaderLike(cleanData[i + 1])}
    IN  IF hits = {} THEN 0 ELSE CHOOSE i \in hits : \A h \in hits : i <= h

\* the 0-based index of the header row
findHeaderRow(cleanData) ==
    LET limit == IF Len(cleanData) < 5 THEN Len(cleanData) ELSE 5
        hits == {i \in 0..(limit - 1) : IsHeaderLike(cleanData[i + 1])}
    IN  IF hits = {} THEN 0 ELSE CHOOSE i \in hits : \A h \in hits : i <= h

\* row[0] unwrapped; undefined for a row without cells
RowLabel(row) == IF Len(row) = 0 THEN Undefined ELSE CellValue(row[1])

\* the negation of `!rowLabel || rowLabel === ''`
RowKept(row) == Truthy(RowLabel(row)) /\ RowLabel(row) # Str(<<>>)

\* RowData with row.slice(0) for row.slice(1): the label stays in values
RowDataKeepingLabel(cleanData, i) ==
    LET row == cleanData[i + 1]
        rowLabel == RowLabel(row)
    IN  [rowIndex |-> i,
         label |-> rowLabel,
         values |-> [c \in 1..Len(row) |-> CellValue(row[c])],
         originalRow |-> row,
         isTotal |-> isLikelyTotalRow(rowLabel),
         isSubtotal |-> isLikelySubtotalRow(rowLabel),
         category |-> categorizeRowLabel(rowLabel),
         hasFormulas |-> \E c \in 1..Len(row) : row[c].obj /\ row[c].isFormula,
         dataTypes |-> [c \in 1..Len(row) |->
                          IF row[c].obj THEN row[c].detectedType ELSE "text"]]

\* the rowData object of the row with 0-based index i
RowData(cleanData, i) ==
    LET row == cleanData[i + 1]
        rowLabel == RowLabel(row)
    IN  [rowIndex |-> i,
         label |-> rowLabel,
         values |-> [c \in 1..(Len(row) - 1) |-> CellValue(row[c + 1])],
         originalRow |-> row,
         isTotal |-> isLikelyTotalRow(rowLabel),
         isSubtotal |-> isLikelySubtotalRow(rowLabel),
         category |-> categorizeRowLabel(rowLabel),
         hasFormulas |-> \E c \in 1..Len(row) : row[c].obj /\ row[c].isFormula,
         dataTypes |-> [c \in 1..Len(row) |->
                          IF row[c].obj THEN row[c].detectedType ELSE "text"]]

\* IsKeyRow without the isTotal alternative
IsKeyRowWithoutTotals(rowData) == isKeyFinancialRow(rowData.label)

\* rowData.isTotal || this.isKeyFinancialRow(rowLabel)
IsKeyRow(rowData) == rowData.isTotal \/ isKeyFinancialRow(rowData.label)

\* the object returned for an absent or empty grid; the properties it does
\* not have are given the value they have in a fresh result
EmptyResult ==
    [type |-> "empty", headers |-> <<>>, columnHeaders |-> <<>>, dataRows |-> <<>>,
     keyRows |-> <<>>, totalRows |-> <<>>, quarterlyData |-> <<>>, rowLabels |-> <<>>,
     formulaAnalysis |-> analyzeFormulas(NullGrid),
     formatAnalysis |-> analyzeNumberFormats(NullGrid),
     dataTypes |-> [tag \in HistogramTags |-> 0]]

analyzeAdvancedTableStructure(values, formulas, nf) ==
    IF values.k # "array" \/ Len(values.rows) = 0 THEN EmptyResult
    ELSE LET cleanData == CleanData(values, formulas, nf)
             headerRowIndex == findHeaderRow(cleanData)
             columnHeaders == [c \in 1..Len(cleanData[headerRowIndex + 1]) |->
                                  CellValue(cleanData[headerRowIndex + 1][c])]
             indices == [i \in 1..Len(cleanData) |-> i - 1]
             keptIndices == SelectSeq(indices, LAMBDA i : RowKept(cleanData[i + 1]))
             dataRows == [k \in 1..Len(keptIndices) |-> RowData(cleanData, keptIndices[k])]
             series == [k \in 1..Len(dataRows) |->
                           extractQuarterlyData(dataRows[k], columnHeaders)]
         IN  [type |-> "advanced_financial_table",
              headers |-> <<>>,
              columnHeaders |-> columnHeaders,
              dataRows |-> dataRows,
              keyRows |-> SelectSeq(dataRows, IsKeyRow),
              totalRows |-> SelectSeq(dataRows, LAMBDA rd : rd.isTotal),
              quarterlyData |-> IF hasQuarterlyPattern(columnHeaders)
                                THEN SelectSeq(series, LAMBDA q : Len(q.quarters) > 0)
                                ELSE <<>>,
              rowLabels |-> [k \in 1..Len(dataRows) |-> dataRows[k].label],
              formulaAnalysis |-> analyzeFormulas(formulas),
              formatAnalysis |-> analyzeNumberFormats(nf),
              dataTypes |-> analyzeDataTypes(values, nf)]

----------------------------------------------------------------------------
(* DataService: reading the worksheet *)

\* CONFIG.MAX_ANALYSIS_CELLS
MAX_ANALYSIS_CELLS == 100000

\* a loaded Range: the 1-based worksheet row and column of its first cell,
\* its size, whether values[0][0] is null or "", and the properties
\* _isSampled and _originalSize that getSmartSampledRange adds
NoRange ==
    [row |-> 0, col |-> 0, rowCount |-> 0, columnCount |-> 0, firstCellEmpty |-> TRUE,
     sampledMark |-> FALSE, originalRows |-> 0, originalCols |-> 0]

LoadedRange(row, col, rowCount, columnCount, firstCellEmpty) ==
    [row |-> row, col |-> col, rowCount |-> rowCount, columnCount |-> columnCount,
     firstCellEmpty |-> firstCellEmpty,
     sampledMark |-> FALSE, originalRows |-> 0, originalCols |-> 0]

RECURSIVE getColumnLetter(_)
getColumnLetter(columnNumber) ==
    IF columnNumber > 0
    THEN getColumnLetter((columnNumber - 1) \div 26)
             \o <<UpperChars[((columnNumber - 1) % 26) + 1]>>
    ELSE <<>>

RECURSIVE getColumnNumber(_)
getColumnNumber(columnLetter) ==
    IF columnLetter = <<>> THEN 0
    ELSE getColumnNumber(SubSeq(columnLetter, 1, Len(columnLetter) - 1)) * 26
             + (CHOOSE i \in 1..26 : UpperChars[i] = columnLetter[Len(columnLetter)])

\* Math.floor(Math.sqrt(n)), by bisection on lo * lo <= n < hi * hi
\* (mid * mid <= n is tested as mid <= n \div mid)
RECURSIVE Bisect(_, _, _)
Bisect(n, lo, hi) ==
    IF hi - lo <= 1 THEN lo
    ELSE LET mid == (lo + hi) \div 2
         IN  IF mid <= n \div mid THEN Bisect(n, mid, hi) ELSE Bisect(n, lo, mid)

FloorSqrt(n) == Bisect(n, 0, n + 1)

Min(a, b) == IF a < b THEN a ELSE b
Max(a, b) == IF a > b THEN a ELSE b

\* SamplePlan with all the columns of the original range sampled
SamplePlanAllColumns(originalRange) ==
    LET totalRows == originalRange.rowCount
        totalCols == originalRange.columnCount
        maxSampleRows == Min(FloorSqrt(MAX_ANALYSIS_CELLS), totalRows)
        maxSampleCols == Min(MAX_ANALYSIS_CELLS \div maxSampleRows, totalCols)
        headerRows == Min(5, totalRows)
        footerRows == Min(3, totalRows - headerRows)
    IN  [totalRows |-> totalRows, totalCols |-> totalCols,
         maxSampleRows |-> maxSampleRows, maxSampleCols |-> maxSampleCols,
         headerRows |-> headerRows, footerRows |-> footerRows,
         middleRows |-> Max(0, maxSampleRows - headerRows - footerRows),
         sampleCols |-> totalCols]

\* the sizes getSmartSampledRange computes
SamplePlan(originalRange) ==
    LET totalRows == originalRange.rowCount
        totalCols == originalRange.columnCount
        maxSampleRows == Min(FloorSqrt(MAX_ANALYSIS_CELLS), totalRows)
        maxSampleCols == Min(MAX_ANALYSIS_CELLS \div maxSampleRows, totalCols)
        headerRows == Min(5, totalRows)
        footerRows == Min(3, totalRows - headerRows)
    IN  [totalRows |-> totalRows, totalCols |-> totalCols,
         maxSampleRows |-> maxSampleRows, maxSampleCols |-> maxSampleCols,
         headerRows |-> headerRows, footerRows |-> footerRows,
         middleRows |-> Max(0, maxSampleRows - headerRows - footerRows),
         sampleCols |-> Min(maxSampleCols, totalCols)]

\* the row numbers named by the addresses pushed to `ranges`
CompositeRows(originalRange) ==
    LET plan == SamplePlan(originalRange)
        step == (plan.totalRows - plan.headerRows - plan.footerRows) \div plan.middleRows
    IN  (1..plan.headerRows)
        \cup (IF plan.middleRows > 0
              THEN {plan.headerRows + 1 + (i * step) : i \in 0..(plan.middleRows - 1)}
              ELSE {})
        \cup ((plan.totalRows - plan.footerRows + 1)..plan.totalRows)

\* worksheet.getRange(`A1:${endCol}${endRow}`), loaded
GetRangeFromA1(endCol, endRow) ==
    LoadedRange(1, getColumnNumber(<<"A">>), endRow, getColumnNumber(endCol), FALSE)

getSmartSampledRange(originalRange) ==
    LET plan == SamplePlan(originalRange)
        simplifiedEndCol == getColumnLetter(plan.sampleCols)
        simplifiedRange == GetRangeFromA1(simplifiedEndCol, plan.maxSampleRows)
    IN  [simplifiedRange EXCEPT !.sampledMark = TRUE,
                                !.originalRows = plan.totalRows,
                                !.originalCols = plan.totalCols]

\* the selection is used unless it is a single empty cell
SelectionUsable(sel) ==
    sel.rowCount > 1 \/ sel.columnCount > 1 \/ ~sel.firstCellEmpty

\* ChooseRange with `<` for `<=` in the test against the budget
ChooseRangeStrict(useSelection, sel, used) ==
    LET picked == IF useSelection /\ SelectionUsable(sel) THEN sel ELSE used
        fromSelection == useSelection /\ SelectionUsable(sel)
        totalCells == picked.rowCount * picked.columnCount
    IN  IF totalCells < MAX_ANALYSIS_CELLS
        THEN [original |-> picked, range |-> picked,
              isSelection |-> fromSelection, isSampled |-> FALSE]
        ELSE [original |-> picked, range |-> getSmartSampledRange(picked),
              isSelection |-> fromSelection, isSampled |-> TRUE]

\* the locals range, isSelection and isSampled when the data is gathered, and
\* the range the decision was taken on
ChooseRange(useSelection, sel, used) ==
    LET picked == IF useSelection /\ SelectionUsable(sel) THEN sel ELSE used
        fromSelection == useSelection /\ SelectionUsable(sel)
        totalCells == picked.rowCount * picked.columnCount
    IN  IF totalCells <= MAX_ANALYSIS_CELLS
        THEN [original |-> picked, range |-> picked,
              isSelection |-> fromSelection, isSampled |-> FALSE]
        ELSE [original |-> picked, range |-> getSmartSampledRange(picked),
              isSelection |-> fromSelection, isSampled |-> TRUE]

\* currentWorksheetData; the grids rawData, rawFormulas and numberFormats and
\* the structuredData made from them are range.values, range.formulas and
\* range.numberFormat, named here by the range they are the cells of
NoWorksheetData ==
    [kind |-> "null", classified |-> NoRange, totalRows |-> 0, totalCols |-> 0,
     isSelection |-> FALSE, isSampled |-> FALSE]

\* WorksheetData without the test of range.columnCount
WorksheetDataRowsOnly(choice) ==
    IF choice.range.rowCount = 0
    THEN [NoWorksheetData EXCEPT !.kind = "empty"]
    ELSE [kind |-> "data", classified |-> choice.range,
          totalRows |-> choice.range.rowCount, totalCols |-> choice.range.columnCount,
          isSelection |-> choice.isSelection, isSampled |-> choice.isSampled]

WorksheetData(choice) ==
    IF choice.range.rowCount = 0 \/ choice.range.columnCount = 0
    THEN [NoWorksheetData EXCEPT !.kind = "empty"]
    ELSE [kind |-> "data", classified |-> choice.range,
          totalRows |-> choice.range.rowCount, totalCols |-> choice.range.columnCount,
          isSelection |-> choice.isSelection, isSampled |-> choice.isSampled]

----------------------------------------------------------------------------
(* The worksheets a read is tried on *)

RangeOrigins == {<<1, 1>>, <<2, 3>>}

\* rows and columns: 1, 250, 100000, 100001, 100172 and 100400 cells
RangeSizes == {<<1, 1>>, <<1, 250>>, <<400, 250>>, <<11, 9091>>, <<316, 317>>, <<400, 251>>}

\* rows and columns of the ranges without a cell
EmptyRangeSizes == {<<0, 0>>, <<0, 3>>, <<3, 0>>}

\* the first cell of a range matters only to a selection of a single cell
Ranges ==
    {LoadedRange(o[1], o[2], sz[1], sz[2], FALSE) : o \in RangeOrigins, sz \in RangeSizes}
    \cup {LoadedRange(o[1], o[2], 1, 1, TRUE) : o \in RangeOrigins}
    \cup {LoadedRange(1, 1, sz[1], sz[2], FALSE) : sz \in EmptyRangeSizes}

UsedRanges == {r \in Ranges : ~r.firstCellEmpty}

\* the largest number of calls of handleSendMessage that the model lets run
\* side by side
MaxSends == 2

\* a call of handleSendMessage: pc is "idle" when the call has settled (or
\* never started), else the await it stands at; message is the local of
\* that name; onSession is the session whose system prompt it sent;
\* promptLength, sent and outcome say what askGeminiWithContext
\* built, sent and gave for it; clearedDuring says that
\* handleClearConversation ran since the call started
IdleSend ==
    [pc |-> "idle", message |-> 0, useSelection |-> TRUE, onSession |-> 0,
     promptLength |-> 0, sent |-> "none", outcome |-> "none", clearedDuring |-> FALSE]

\* the state after initializeServices
InitChatIdle ==
    /\ userInput = 0
    /\ controlsEnabled = TRUE
    /\ loadingShown = FALSE
    /\ conversationHistory = <<>>
    /\ added = <<>>
    /\ chatSession = 0
    /\ sessions = <<>>
    /\ sends = [s \in 1..MaxSends |-> IdleSend]
    /\ started = 0

InitClassifyIdle ==
    /\ rawValues = NullGrid
    /\ rawFormulas = NullGrid
    /\ numberFormats = NullGrid
    /\ engineDates = {}
    /\ result = EmptyResult
    /\ analyzed = FALSE
    /\ headerRowFound = -1
    /\ cellValue = Undefined
    /\ cellFormat = Undefined
    /\ cellType = "none"

InitReadIdle ==
    /\ selectedRange = LoadedRange(1, 1, 1, 1, TRUE)
    /\ usedRange = LoadedRange(1, 1, 1, 1, TRUE)
    /\ shouldUseSelection = TRUE
    /\ origRange = NoRange
    /\ range = NoRange
    /\ isSelection = FALSE
    /\ isSampled = FALSE
    /\ readDone = FALSE
    /\ readClassified = FALSE
    /\ lastReadRejected = FALSE
    /\ currentWorksheetData = NoWorksheetData

\* the user selects another range
SelectRange(r) ==
    /\ selectedRange' = r
    /\ UNCHANGED <<usedRange, shouldUseSelection, origRange, range, isSelection,
                   isSampled, readDone, readClassified, lastReadRejected,
                   currentWorksheetData>>
    /\ UNCHANGED classifyVars
    /\ UNCHANGED chatVars

\* the worksheet is edited and its used range becomes another one
UsedRangeChanges(r) ==
    /\ usedRange' = r
    /\ UNCHANGED <<selectedRange, shouldUseSelection, origRange, range, isSelection,
                   isSampled, readDone, readClassified, lastReadRejected,
                   currentWorksheetData>>
    /\ UNCHANGED classifyVars
    /\ UNCHANGED chatVars

\* selectedRange.values[0][0] is evaluated, when the selection has at most
\* one row and one column, on a values array without a first row
SelectionTestRaises(useSelection, sel) ==
    useSelection /\ sel.rowCount = 0 /\ sel.columnCount <= 1

\* ReadRejects with the cache emptied on the way to the rejection
ReadRejectsClearingCache ==
    /\ lastReadRejected' = TRUE
    /\ currentWorksheetData' = NoWorksheetData
    /\ UNCHANGED <<selectedRange, usedRange, shouldUseSelection, origRange, range,
                   isSelection, isSampled, readDone, readClassified>>

\* the catch block: reject(new Error(...)), nothing of the service assigned
ReadRejects ==
    /\ lastReadRejected' = TRUE
    /\ UNCHANGED <<selectedRange, usedRange, shouldUseSelection, origRange, range,
                   isSelection, isSampled, readDone, readClassified, currentWorksheetData>>

\* the try block up to resolve(this.currentWorksheetData)
ReadResolves(useSelection) ==
    LET choice == ChooseRange(useSelection, selectedRange, usedRange)
    IN  /\ shouldUseSelection' = useSelection
        /\ origRange' = choice.original
        /\ range' = choice.range
        /\ isSelection' = choice.isSelection
        /\ isSampled' = choice.isSampled
        /\ readDone' = TRUE
        /\ readClassified' = (WorksheetData(choice).kind = "data")
        /\ lastReadRejected' = FALSE
        /\ currentWorksheetData' = WorksheetData(choice)
        /\ UNCHANGED <<selectedRange, usedRange>>

\* syncOk: no context.sync() or load of this read fails
readCurrentWorksheetDataEnhanced(useSelection, syncOk) ==
    /\ IF syncOk /\ ~SelectionTestRaises(useSelection, selectedRange)
       THEN ReadResolves(useSelection)
       ELSE ReadRejects
    /\ UNCHANGED classifyVars
    /\ UNCHANGED chatVars

clearCurrentData ==
    /\ currentWorksheetData' = NoWorksheetData
    /\ UNCHANGED <<selectedRange, usedRange, shouldUseSelection, origRange, range,
                   isSelection, isSampled, readDone, readClassified, lastReadRejected>>
    /\ UNCHANGED classifyVars
    /\ UNCHANGED chatVars

InitRead == InitClassifyIdle /\ InitReadIdle /\ InitChatIdle

NextRead ==
    \/ \E r \in Ranges : SelectRange(r)
    \/ \E r \in UsedRanges : UsedRangeChanges(r)
    \/ \E b \in BOOLEAN, syncOk \in BOOLEAN : readCurrentWorksheetDataEnhanced(b, syncOk)
    \/ clearCurrentData

SpecRead == InitRead /\ [][NextRead]_vars

----------------------------------------------------------------------------
(* The grids the classifier is tried on *)

\* the largest number of rows of a grid
MaxRows == 2

\* a cell of the worksheet: its value, its formula text (the value itself
\* when the cell holds no formula) and its number format
Plain(value) == [value |-> value, formula |-> value, format |-> General]
Computed(value, formula, format) == [value |-> value, formula |-> formula, format |-> format]

LabelCells ==
    {Plain(Str(<<"T", "o", "t", "a", "l", " ", "R", "e", "v", "e", "n", "u", "e">>)),
     Plain(Str(<<"G", "r", "o", "s", "s", " ", "M", "a", "r", "g", "i", "n", " ", "%">>)),
     Plain(Str(<<"I", "t", "e", "m">>)),
     Plain(Str(<<" ", " ">>)),
     Plain(Num(0)),
     Plain(Num(7))}

ValueCells ==
    {Plain(Str(<<"1", "Q", "2", "3">>)),
     Plain(Num(100)),
     Plain(Str(<<"0">>)),
     Plain(Str(<<>>)),
     Computed(Num(7), Str(<<"=", "S", "U", "M", "(", "B", "1", ")">>), Str(<<"$", "#", ",", "#", "#", "0">>)),
     Computed(Str(<<"a", "b", "c">>), Str(<<"=", "T", "(", "A", "1", ")">>), General)}

SheetRows == {<<l, v>> : l \in LabelCells, v \in ValueCells}

\* the sequences of 1 to n rows
RECURSIVE SheetsUpTo(_)
SheetsUpTo(n) ==
    IF n = 0 THEN {}
    ELSE {<<r>> : r \in SheetRows}
         \cup {Append(sh, r) : sh \in SheetsUpTo(n - 1), r \in SheetRows}

ValuesOf(sheet) == Grid([r \in 1..Len(sheet) |-> [c \in 1..Len(sheet[r]) |-> sheet[r][c].value]])
FormulasOf(sheet) == Grid([r \in 1..Len(sheet) |-> [c \in 1..Len(sheet[r]) |-> sheet[r][c].formula]])
FormatsOf(sheet) == Grid([r \in 1..Len(sheet) |-> [c \in 1..Len(sheet[r]) |-> sheet[r][c].format]])

\* strings outside the ISO form that some engines' Date.parse accepts
EngineDependentDates == {<<"0">>}

InitCellIdle ==
    /\ headerRowFound = -1
    /\ cellValue = Undefined
    /\ cellFormat = Undefined
    /\ cellType = "none"

Init ==
    /\ \E sheet \in SheetsUpTo(MaxRows) :
          /\ rawValues = ValuesOf(sheet)
          /\ rawFormulas = FormulasOf(sheet)
          /\ numberFormats = FormatsOf(sheet)
    /\ engineDates \in SUBSET EngineDependentDates
    /\ result = EmptyResult
    /\ analyzed = FALSE
    /\ InitCellIdle
    /\ InitReadIdle
    /\ InitChatIdle

\* the header row analyzeAdvancedTableStructure finds: no value is assigned
\* when it returns early
HeaderRowIndexOf(values, formulas, nf) ==
    IF values.k # "array" \/ Len(values.rows) = 0 THEN -1
    ELSE findHeaderRow(CleanData(values, formulas, nf))

Analyze ==
    /\ ~analyzed
    /\ result' = analyzeAdvancedTableStructure(rawValues, rawFormulas, numberFormats)
    /\ headerRowFound' = HeaderRowIndexOf(rawValues, rawFormulas, numberFormats)
    /\ analyzed' = TRUE
    /\ UNCHANGED <<rawValues, rawFormulas, numberFormats, engineDates>>
    /\ UNCHANGED <<cellValue, cellFormat, cellType>>
    /\ UNCHANGED readVars
    /\ UNCHANGED chatVars

Next == Analyze

Spec == Init /\ [][Next]_vars

----------------------------------------------------------------------------
(* Properties of the classification *)

CellCount(g) == Cardinality(Positions(g))

HistogramSum(h) ==
    h["text"] + h["number"] + h["date"] + h["currency"] + h["percentage"] + h["boolean"]

\* a value that is null, undefined or the empty string
IsBlank(v) == v.k \in {"null", "undef"} \/ v = Str(<<>>)

NonBlankCount(g) == Cardinality({p \in Positions(g) : ~IsBlank(g.rows[p[1]][p[2]])})

RawLabel(rd) == rawValues.rows[rd.rowIndex + 1][1]

InSeq(x, seq) == \E i \in 1..Len(seq) : seq[i] = x

\* the category the specification gives to a label
CategoryByKeyword(label) ==
    IF isLikelyTotalRow(label) THEN Str(<<"t", "o", "t", "a", "l">>)
    ELSE IF isKeyFinancialRow(label) THEN Str(<<"k", "e", "y">>)
    ELSE Str(<<"p", "l", "a", "i", "n">>)

C7_QuarterValueIsParsedOrRaw ==
    analyzed =>
        \A k \in 1..Len(result.dataRows) :
            LET rd == result.dataRows[k]
                points == extractQuarterlyData(rd, result.columnHeaders).quarters
            IN  \A i \in 1..Len(points) :
                    LET value == rd.values[points[i].columnIndex]
                    IN  points[i].value =
                            IF ParseFloat(value).k = "num" THEN ParseFloat(value) ELSE value

\* C8 as claimed: the type vector of every row of the result holds, cell by
\* cell, the tag detectCellType gives to the cell's value and format.
C8_RowTypesAreDetectedTypes ==
    analyzed =>
        \A k \in 1..Len(result.dataRows) :
            LET rd == result.dataRows[k]
                r == rd.rowIndex + 1
            IN  \A c \in 1..Len(rawValues.rows[r]) :
                    rd.dataTypes[c] =
                        detectCellType(rawValues.rows[r][c], FormatAt(numberFormats, r, c))

\* C9 as claimed: a row's hasFormulas flag is true exactly when one of the
\* row's cells has a formula text starting with '=', whatever the type of the
\* cell's value.
C9_HasFormulasIffFormulaCell ==
    analyzed =>
        \A k \in 1..Len(result.dataRows) :
            LET rd == result.dataRows[k]
                r == rd.rowIndex + 1
            IN  rd.hasFormulas <=>
                    \E c \in 1..Len(rawFormulas.rows[r]) : IsFormulaText(rawFormulas.rows[r][c])

\* a label that is null, undefined, empty or only whitespace
IsBlankLabel(v) == v.k \in {"null", "undef"} \/ (v.k = "str" /\ Trim(v.s) = <<>>)

\* C10 as claimed: the rows of the result are, in grid order and once each,
\* the grid rows whose column-0 value is not empty and not only whitespace;
\* a row labelled 0 or false is kept.
C10_RowsAreTheLabelledRows ==
    analyzed =>
        [k \in 1..Len(result.dataRows) |-> result.dataRows[k].rowIndex]
            = SelectSeq([i \in 1..Len(rawValues.rows) |-> i - 1],
                        LAMBDA i : ~IsBlankLabel(rawValues.rows[i + 1][1]))

----------------------------------------------------------------------------
(* Properties of the read *)

Cells(r) == r.rowCount * r.columnCount

WorksheetRows(r) == r.row..(r.row + r.rowCount - 1)
WorksheetColumns(r) == r.col..(r.col + r.columnCount - 1)

\* C3 as claimed: a sampled read classifies the first min(5, rows) rows of
\* the original range, its last min(3, rows - 5) rows, and evenly spaced
\* middle rows for the rest of the row budget.
C3_SampleKeepsHeadersAndFooters ==
    (readDone /\ isSampled) =>
        LET rows == origRange.rowCount
            headers == Min(5, rows)
            footers == Min(3, rows - headers)
            last == origRange.row + rows - 1
        IN  /\ origRange.row..(origRange.row + headers - 1) \subseteq WorksheetRows(range)
            /\ (last - footers + 1)..last \subseteq WorksheetRows(range)
            /\ WorksheetRows(range)
                   \subseteq {origRange.row - 1 + k : k \in CompositeRows(origRange)}

\* C4 as claimed: a sampled read classifies the top-left block of the
\* original range: it starts at the original range's first cell, has
\* min(316, rows) rows and min(floor(100000 / that), cols) columns, and lies
\* inside the original range.
C4_SampleIsTopLeftOfOriginal ==
    (readDone /\ isSampled) =>
        LET sampleRows == Min(FloorSqrt(100000), origRange.rowCount)
        IN  /\ range.row = origRange.row
            /\ range.col = origRange.col
            /\ range.rowCount = sampleRows
            /\ range.columnCount = Min(100000 \div sampleRows, origRange.columnCount)
            /\ WorksheetRows(range) \subseteq WorksheetRows(origRange)
            /\ WorksheetColumns(range) \subseteq WorksheetColumns(origRange)

\* C5: a range of at most 100,000 cells is classified in full with isSampled
\* false, a range of 100,001 cells or more is replaced by the range the
\* sampling returns with isSampled true, and isSampled is true exactly when
\* the classified range came from the sampling.
C5_SampledIffOverBudget ==
    readDone =>
        /\ Cells(origRange) <= 100000 => (~isSampled /\ range = origRange)
        /\ Cells(origRange) >= 100001 => (isSampled /\ range # origRange)
        /\ isSampled <=> range.sampledMark
        /\ currentWorksheetData.kind = "data" =>
               /\ currentWorksheetData.isSampled = isSampled
               /\ currentWorksheetData.classified = range

\* a read of a range of exactly 100,001 cells, which was sampled
C5_Witness ==
    /\ readDone
    /\ Cells(origRange) = 100001
    /\ isSampled
    /\ currentWorksheetData.kind = "data"
    /\ currentWorksheetData.isSampled

\* C6: the grid handed to the classifier has at most 100,000 cells whatever
\* the size of the original range.
C6_ClassifiedGridWithinBudget ==
    /\ readDone => Cells(range) <= 100000
    /\ currentWorksheetData.kind = "data" =>
           currentWorksheetData.totalRows * currentWorksheetData.totalCols <= 100000

\* a read of an oversized range that classified a smaller block
C6_Witness ==
    /\ readDone
    /\ Cells(origRange) > 100000
    /\ currentWorksheetData.kind = "data"
    /\ currentWorksheetData.totalRows * currentWorksheetData.totalCols < Cells(origRange)
    /\ currentWorksheetData.totalRows * currentWorksheetData.totalCols > 1

----------------------------------------------------------------------------
(* Grids of labelled rows: every row is a label followed by the same cells *)

\* the largest number of columns of a grid of labelled rows
MaxCols == 3

RowLabels ==
    {Null, Str(<<>>), Str(<<" ", " ">>), Num(7),
     Str(<<"T", "o", "t", "a", "l", " ", "R", "e", "v", "e", "n", "u", "e">>),
     Str(<<" ", "N", "e", "t", " ", "A", "s", "s", "e", "t", "s", " ">>),
     Str(<<"S", "u", "m">>),
     Str(<<"a", "g", "g", "r", "e", "g", "a", "t", "e">>),
     Str(<<"G", "r", "a", "n", "d", " ", "T", "o", "t", "a", "l">>),
     Str(<<"C", "O", "N", "S", "O", "L", "I", "D", "A", "T", "E", "D">>),
     Str(<<"S", "u", "b", "t", "o", "t", "a", "l">>),
     Str(<<"G", "r", "o", "s", "s", " ", "M", "a", "r", "g", "i", "n", " ", "%">>),
     Str(<<"e", "b", "i", "t", "d", "a">>),
     Str(<<"O", "p", "e", "x">>),
     Str(<<"Y", "o", "Y", " ", "G", "r", "o", "w", "t", "h">>),
     Str(<<"I", "t", "e", "m">>)}

\* the cell of a labelled row in column c (from 2): a quarter label in the
\* even columns and a number in the odd ones
FillCell(c) == IF c % 2 = 0 THEN Plain(Str(<<"1", "Q", "2", "3">>)) ELSE Plain(Num(100))

LabelledRow(label, width) ==
    [c \in 1..width |-> IF c = 1 THEN Plain(label) ELSE FillCell(c)]

\* the sequences of 1 to n labels
RECURSIVE LabelSeqsUpTo(_)
LabelSeqsUpTo(n) ==
    IF n = 0 THEN {}
    ELSE {<<l>> : l \in RowLabels}
         \cup {Append(ls, l) : ls \in LabelSeqsUpTo(n - 1), l \in RowLabels}

LabelledSheets ==
    {[r \in 1..Len(ls) |-> LabelledRow(ls[r], w)] : ls \in LabelSeqsUpTo(MaxRows), w \in 1..MaxCols}

InitLabels ==
    /\ \E sheet \in LabelledSheets :
          /\ rawValues = ValuesOf(sheet)
          /\ rawFormulas = FormulasOf(sheet)
          /\ numberFormats = FormatsOf(sheet)
    /\ engineDates \in SUBSET EngineDependentDates
    /\ result = EmptyResult
    /\ analyzed = FALSE
    /\ InitCellIdle
    /\ InitReadIdle
    /\ InitChatIdle

SpecLabels == InitLabels /\ [][Next]_vars

----------------------------------------------------------------------------
(* Properties of the rows of the result *)

ColumnCount(g) == Len(g.rows[1])

\* C11: no row whose column-0 label is null, the empty string or only
\* whitespace appears in the rows, the key rows, the total rows or the
\* quarterly series of the result.
C11_NoBlankLabelInResult ==
    analyzed =>
        /\ \A k \in 1..Len(result.dataRows) : ~IsBlankLabel(RawLabel(result.dataRows[k]))
        /\ \A k \in 1..Len(result.keyRows) : ~IsBlankLabel(RawLabel(result.keyRows[k]))
        /\ \A k \in 1..Len(result.totalRows) : ~IsBlankLabel(RawLabel(result.totalRows[k]))
        /\ \A k \in 1..Len(result.quarterlyData) : ~IsBlankLabel(result.quarterlyData[k].label)
        /\ Len(result.quarterlyData) <= Len(result.dataRows)

\* a grid with a blank label in its second row, classified into one row with
\* a quarterly series
C11_Witness ==
    /\ analyzed
    /\ Len(rawValues.rows) = 2
    /\ IsBlankLabel(rawValues.rows[2][1])
    /\ Len(result.dataRows) = 1
    /\ Len(result.quarterlyData) = 1

\* C12: for a non-empty grid the header sequence of the result (its
\* columnHeaders) is as long as the grid has columns, and the values of every
\* row are one shorter.
C12_HeaderAndValueLengths ==
    (analyzed /\ Len(rawValues.rows) > 0) =>
        /\ Len(result.columnHeaders) = ColumnCount(rawValues)
        /\ \A k \in 1..Len(result.dataRows) :
               Len(result.dataRows[k].values) = ColumnCount(rawValues) - 1

\* a classified grid of three columns with a row in the result
C12_Witness ==
    /\ analyzed
    /\ ColumnCount(rawValues) = 3
    /\ Len(result.dataRows) >= 1
    /\ Len(result.dataRows[1].values) = 2

\* a sequence of rowData objects in the order of their grid rows
InGridOrder(seq) ==
    \A i, j \in 1..Len(seq) : i < j => seq[i].rowIndex < seq[j].rowIndex

\* C13: every key row is one of the rows, every total row is one of the key
\* rows, and both lists keep the order of the rows.
C13_TotalRowsInKeyRowsInRows ==
    analyzed =>
        /\ \A k \in 1..Len(result.keyRows) : InSeq(result.keyRows[k], result.dataRows)
        /\ \A k \in 1..Len(result.totalRows) : InSeq(result.totalRows[k], result.keyRows)
        /\ InGridOrder(result.dataRows)
        /\ InGridOrder(result.keyRows)
        /\ InGridOrder(result.totalRows)

\* a total row without a key-financial word after a key row that is no total
\* row: two key rows in grid order, the second of them the only total row
C13_Witness ==
    /\ analyzed
    /\ Len(result.dataRows) = 2
    /\ Len(result.keyRows) = 2
    /\ Len(result.totalRows) = 1
    /\ RawLabel(result.totalRows[1]) = Str(<<" ", "N", "e", "t", " ", "A", "s", "s", "e", "t", "s", " ">>)
    /\ result.keyRows[2] = result.totalRows[1]

\* the words of the claim
ClaimedTotalWords ==
    {<<"t", "o", "t", "a", "l">>,
     <<"s", "u", "m">>,
     <<"g", "r", "a", "n", "d", " ", "t", "o", "t", "a", "l">>,
     <<"n", "e", "t">>,
     <<"a", "g", "g", "r", "e", "g", "a", "t", "e">>,
     <<"c", "o", "n", "s", "o", "l", "i", "d", "a", "t", "e", "d">>}

ClaimedKeyWords ==
    {<<"r", "e", "v", "e", "n", "u", "e">>,
     <<"s", "a", "l", "e", "s">>,
     <<"i", "n", "c", "o", "m", "e">>,
     <<"e", "x", "p", "e", "n", "s", "e">>,
     <<"c", "o", "s", "t">>,
     <<"o", "p", "e", "x">>,
     <<"c", "a", "p", "e", "x">>,
     <<"p", "r", "o", "f", "i", "t">>,
     <<"l", "o", "s", "s">>,
     <<"e", "b", "i", "t", "d", "a">>,
     <<"e", "b", "i", "t">>,
     <<"c", "a", "s", "h">>,
     <<"f", "l", "o", "w">>,
     <<"f", "c", "f">>,
     <<"m", "a", "r", "g", "i", "n">>,
     <<"r", "a", "t", "i", "o">>,
     <<"g", "r", "o", "w", "t", "h">>,
     <<"c", "h", "a", "n", "g", "e">>}

ClaimedTotal(raw) ==
    raw.k = "str" /\ \E w \in ClaimedTotalWords : StartsWith(LowerCase(Trim(raw.s)), w)

ClaimedKey(raw) ==
    raw.k = "str" /\ \E w \in ClaimedKeyWords : Includes(LowerCase(raw.s), w)

\* C14: a row of the result is a total row exactly when its trimmed label
\* starts, whatever the case, with total, sum, grand total, net, aggregate or
\* consolidated; it is a key row exactly when it is a total row or its label
\* contains, whatever the case, one of the key-financial words.
C14_TotalAndKeyMembership ==
    analyzed =>
        \A k \in 1..Len(result.dataRows) :
            LET rd == result.dataRows[k]
                raw == RawLabel(rd)
            IN  /\ InSeq(rd, result.totalRows) <=> ClaimedTotal(raw)
                /\ InSeq(rd, result.keyRows) <=> (ClaimedTotal(raw) \/ ClaimedKey(raw))

\* a "Subtotal" row that is no total row next to a "CONSOLIDATED" row that is
C14_Witness ==
    /\ analyzed
    /\ \E k \in 1..Len(result.dataRows) :
          /\ RawLabel(result.dataRows[k]) = Str(<<"S", "u", "b", "t", "o", "t", "a", "l">>)
          /\ ~InSeq(result.dataRows[k], result.totalRows)
    /\ \E k \in 1..Len(result.totalRows) :
          RawLabel(result.totalRows[k]) = Str(<<"C", "O", "N", "S", "O", "L", "I", "D", "A", "T", "E", "D">>)

----------------------------------------------------------------------------
(* Grids for the header row: some rows that are no header, then one or two
   rows of any kind *)

\* the largest number of rows in front of the rows of any kind
MaxLead == 5

Row3(a, b, c) == <<Plain(a), Plain(b), Plain(c)>>

\* rows with fewer than 2 quarter labels and fewer than 3 text cells
FillerRows ==
    {Row3(Str(<<"R", "e", "v", "e", "n", "u", "e">>), Num(100), Num(200)),
     Row3(Str(<<"C", "o", "s", "t">>), Str(<<"1", "2">>), Str(<<>>))}

BodyRows ==
    FillerRows \cup
    {Row3(Str(<<"L", "a", "b", "e", "l">>), Str(<<"1", "Q", "2", "3">>), Str(<<"2", "Q", "2", "3">>)),
     Row3(Str(<<"N", "a", "m", "e">>), Str(<<"R", "e", "g", "i", "o", "n">>), Str(<<"N", "o", "t", "e", "s">>)),
     Row3(Str(<<"R", "e", "v", "e", "n", "u", "e">>), Num(100), Str(<<"1", "Q", "2", "3">>)),
     Row3(Str(<<"1", "q", "2", "3">>), Str(<<"4", "Q", "9", "9">>), Num(5)),
     Row3(Str(<<"N", "o", "t", "e", "s">>), Null, Str(<<>>))}

Repeat(row, n) == [i \in 1..n |-> row]

HeaderSheets ==
    {Repeat(f, a) \o body :
        f \in FillerRows, a \in 0..MaxLead,
        body \in {<<b>> : b \in BodyRows} \cup {<<b1, b2>> : b1 \in BodyRows, b2 \in BodyRows}}

InitHeader ==
    /\ \E sheet \in HeaderSheets :
          /\ rawValues = ValuesOf(sheet)
          /\ rawFormulas = FormulasOf(sheet)
          /\ numberFormats = FormatsOf(sheet)
    /\ engineDates \in SUBSET EngineDependentDates
    /\ result = EmptyResult
    /\ analyzed = FALSE
    /\ InitCellIdle
    /\ InitReadIdle
    /\ InitChatIdle

SpecHeader == InitHeader /\ [][Next]_vars

----------------------------------------------------------------------------
(* Properties of the header row and of the quarterly series *)

\* a string of a digit 1-4, the letter Q in either case and two digits
ClaimedQuarterLabel(v) ==
    /\ v.k = "str"
    /\ Len(v.s) = 4
    /\ v.s[1] \in {"1", "2", "3", "4"}
    /\ v.s[2] \in {"Q", "q"}
    /\ IsDigit(v.s[3]) /\ IsDigit(v.s[4])

\* a non-empty string that does not parse as a number
ClaimedTextCell(v) ==
    v.k = "str" /\ Len(Trim(v.s)) > 0 /\ ToNumber(Str(Trim(v.s))).k = "nan"

\* a grid row with at least 2 quarter labels or at least 3 text cells
ClaimedHeaderLike(row) ==
    \/ Cardinality({c \in 1..Len(row) : ClaimedQuarterLabel(row[c])}) >= 2
    \/ Cardinality({c \in 1..Len(row) : ClaimedTextCell(row[c])}) >= 3

\* the 0-based indices of the rows findHeaderRow looks at
ScanWindow(g) == 0..((IF Len(g.rows) < 5 THEN Len(g.rows) ELSE 5) - 1)

\* C15: findHeaderRow returns the smallest index among the first min(5, row
\* count) rows whose row has at least 2 quarter labels or at least 3 non-empty
\* strings that do not parse as a number, 0 when no row of that window
\* qualifies, and never an index of 5 or more or outside the grid.
C15_HeaderIsFirstQualifyingOfFive ==
    analyzed =>
        LET hits == {i \in ScanWindow(rawValues) : ClaimedHeaderLike(rawValues.rows[i + 1])}
        IN  /\ headerRowFound \in ScanWindow(rawValues)
            /\ hits = {} => headerRowFound = 0
            /\ hits # {} => /\ headerRowFound \in hits
                            /\ \A h \in hits : headerRowFound <= h

\* the only qualifying row of a grid is its sixth, and the first row is taken
C15_Witness ==
    /\ analyzed
    /\ Len(rawValues.rows) >= 6
    /\ ClaimedHeaderLike(rawValues.rows[6])
    /\ \A i \in 1..5 : ~ClaimedHeaderLike(rawValues.rows[i])
    /\ headerRowFound = 0

\* the header column indices of the points the claim gives a row
ClaimedPointColumns(rowData, headers) ==
    {j \in 1..(Len(headers) - 1) :
        /\ ClaimedQuarterLabel(headers[j + 1])
        /\ j <= Len(rowData.values)
        /\ rowData.values[j].k \notin {"null", "undef"}
        /\ rowData.values[j] # Str(<<>>)}

\* the points are those of the claimed columns, in increasing column order,
\* each with the header value and, for a number cell, the number
ClaimedSeries(q, rowData, headers) ==
    /\ q.label = rowData.label
    /\ Len(q.quarters) = Cardinality(ClaimedPointColumns(rowData, headers))
    /\ \A p \in 1..Len(q.quarters) :
          LET point == q.quarters[p]
          IN  /\ point.columnIndex \in ClaimedPointColumns(rowData, headers)
              /\ point.quarter = headers[point.columnIndex + 1]
              /\ rowData.values[point.columnIndex].k = "num"
                    => point.value = rowData.values[point.columnIndex]
              /\ \A r \in 1..(p - 1) : q.quarters[r].columnIndex < point.columnIndex

\* C16: the quarterly series of a row has exactly one point (header value,
\* value, j) for every header column j that holds a quarter label and whose
\* row value values[j-1] is present and non-empty, in increasing j; a row
\* without such a column has no series, so every series has a point.
C16_OnePointPerQuarterColumn ==
    analyzed =>
        LET headers == result.columnHeaders
            withPoints == SelectSeq(result.dataRows,
                              LAMBDA rd : ClaimedPointColumns(rd, headers) # {})
        IN  /\ Len(result.quarterlyData) = Len(withPoints)
            /\ \A k \in 1..Len(withPoints) :
                  /\ ClaimedSeries(result.quarterlyData[k], withPoints[k], headers)
                  /\ Len(result.quarterlyData[k].quarters) >= 1

\* header ["Label", "1Q23", "2Q23"] and a row with values [100, 200] give the
\* series [("1Q23", 100, 1), ("2Q23", 200, 2)], next to a row without a series
C16_Witness ==
    /\ analyzed
    /\ result.columnHeaders = <<Str(<<"L", "a", "b", "e", "l">>), Str(<<"1", "Q", "2", "3">>), Str(<<"2", "Q", "2", "3">>)>>
    /\ \E k \in 1..Len(result.quarterlyData) :
          /\ result.quarterlyData[k].label = Str(<<"R", "e", "v", "e", "n", "u", "e">>)
          /\ result.quarterlyData[k].quarters =
                <<[quarter |-> Str(<<"1", "Q", "2", "3">>), value |-> Num(100), columnIndex |-> 1],
                  [quarter |-> Str(<<"2", "Q", "2", "3">>), value |-> Num(200), columnIndex |-> 2]>>
    /\ Len(result.quarterlyData) < Len(result.dataRows)

----------------------------------------------------------------------------
(* One call of detectCellType on any value and any format *)

CellValues ==
    {Null, Undefined, Str(<<>>), Str(<<" ">>), Bool(TRUE), Bool(FALSE),
     Num(0), Num(5), NaN, Obj,
     Str(<<"a", "b", "c">>), Str(<<"1", "2">>), Str(<<"0">>), Str(<<"2", "0", "2", "4", "-", "0", "1", "-", "1", "5">>), Str(<<"1", "Q", "2", "3">>), Str(<<"1", "2", "a", "b", "c">>)}

CellFormats ==
    {Undefined, Null, Str(<<>>), General,
     Str(<<"$", "#", ",", "#", "#", "0">>), Str(<<"0", "%">>), Str(<<"$", "0", "%">>), Str(<<"c", "u", "r", "r", "e", "n", "c", "y">>), Str(<<"d", "-", "m", "m", "m">>), Str(<<"0", ".", "0", "0">>),
     Num(0), Num(5), Bool(TRUE), Obj}

InitCell ==
    /\ rawValues = NullGrid
    /\ rawFormulas = NullGrid
    /\ numberFormats = NullGrid
    /\ engineDates \in SUBSET EngineDependentDates
    /\ result = EmptyResult
    /\ analyzed = FALSE
    /\ headerRowFound = -1
    /\ cellValue \in CellValues
    /\ cellFormat \in CellFormats
    /\ cellType = "none"
    /\ InitReadIdle
    /\ InitChatIdle

\* detectCellType(value, format); "TypeError" is the exception of calling
\* includes on a format that has no such method
Detect ==
    /\ cellType = "none"
    /\ cellType' = detectCellType(cellValue, cellFormat)
    /\ UNCHANGED <<rawValues, rawFormulas, numberFormats, engineDates, result, analyzed,
                   headerRowFound, cellValue, cellFormat>>
    /\ UNCHANGED readVars
    /\ UNCHANGED chatVars

NextCell == Detect

SpecCell == InitCell /\ [][NextCell]_vars

----------------------------------------------------------------------------
(* Properties of detectCellType *)

SevenTags == {"empty", "boolean", "number", "currency", "percentage", "date", "text"}

\* C17: detectCellType returns one of the seven tags for every value and
\* every format, absent, string or not a string, and never raises.
C17_DetectCellTypeIsTotal ==
    cellType # "none" => cellType \in SevenTags

Has(format, marker) == format.k = "str" /\ Includes(format.s, marker)

\* the tag of a number by the rules of the claim
ClaimedNumberTag(format) ==
    IF Has(format, <<"$">>) \/ Has(format, <<"c", "u", "r", "r", "e", "n", "c", "y">>)
    THEN "currency"
    ELSE IF Has(format, <<"%">>) THEN "percentage"
    ELSE IF Has(format, <<"d">>) \/ Has(format, <<"m">>) \/ Has(format, <<"y">>) THEN "date"
    ELSE "number"

\* the tag of a non-empty string by the rules of the claim
ClaimedStringTag(s) ==
    IF IsIsoDate(s) \/ s \in engineDates THEN "date"
    ELSE IF Trim(s) # <<>> /\ ToNumber(Str(s)).k = "num" THEN "number"
    ELSE "text"

ClaimedTag(value, format) ==
    CASE value.k \in {"null", "undef"} \/ value = Str(<<>>) -> "empty"
      [] value.k = "bool" -> "boolean"
      [] value.k \in {"num", "nan"} -> ClaimedNumberTag(format)
      [] value.k = "str" /\ value # Str(<<>>) -> ClaimedStringTag(value.s)
      [] OTHER -> "text"

\* C18: with a format that is a string or absent, detectCellType gives empty
\* for null, undefined and the empty string, boolean for a boolean, for a
\* number currency, else percentage, else date, else number by the markers of
\* the format in that order, and for a string date, else number, else text.
C18_RulesInFixedOrder ==
    (cellType # "none" /\ cellFormat.k \in {"str", "null", "undef"})
        => cellType = ClaimedTag(cellValue, cellFormat)

\* a number whose format has a currency and a percent marker is currency
C18_Witness ==
    /\ cellValue = Num(5)
    /\ cellFormat = Str(<<"$", "0", "%">>)
    /\ cellType = "currency"

----------------------------------------------------------------------------
(* Grids of formula cells, as one row or as one column, and the absent
   formula grid *)

\* the largest number of cells of a grid of formula cells
MaxFormulaCells == 3

FormulaCells ==
    {Plain(Num(7)),
     Plain(Str(<<"T", "o", "t", "a", "l">>)),
     Computed(Num(1), Str(<<"=", "S", "U", "M", "(", "B", "1", ")">>), General),
     Computed(Num(1), Str(<<"=", "I", "F", "(", "S", "U", "M", "(", "A", "1", ")", ">", "0", ",", "M", "A", "X", "(", "B", "1", ")", ",", "0", ")">>), General),
     Computed(Num(1), Str(<<"=", "s", "u", "m", "(", "A", "1", ")", "+", "A", "b", "s", "(", "B", "2", ")">>), General),
     Computed(Num(1), Str(<<"=", "A", "1", "+", "B", "1">>), General),
     Computed(Str(<<"a", "b", "c">>), Str(<<"=", "T", "(", "A", "1", ")">>), General),
     Computed(Num(1), Str(<<"=", "x", "M", "A", "X", "(", "A", "1", ")", "-", "T", "(", "B", "1", ")">>), General)}

RECURSIVE CellSeqsUpTo(_)
CellSeqsUpTo(n) ==
    IF n = 0 THEN {}
    ELSE {<<c>> : c \in FormulaCells}
         \cup {Append(cells, c) : cells \in CellSeqsUpTo(n - 1), c \in FormulaCells}

AsRow(cells) == <<cells>>
AsColumn(cells) == [r \in 1..Len(cells) |-> <<cells[r]>>]

FormulaSheets ==
    {AsRow(cells) : cells \in CellSeqsUpTo(MaxFormulaCells)}
    \cup {AsColumn(cells) : cells \in CellSeqsUpTo(MaxFormulaCells)}

InitFormulas ==
    /\ \E sheet \in FormulaSheets :
          /\ rawValues = ValuesOf(sheet)
          /\ rawFormulas \in {FormulasOf(sheet), NullGrid}
          /\ numberFormats = FormatsOf(sheet)
    /\ engineDates \in SUBSET EngineDependentDates
    /\ result = EmptyResult
    /\ analyzed = FALSE
    /\ InitCellIdle
    /\ InitReadIdle
    /\ InitChatIdle

SpecFormulas == InitFormulas /\ [][Next]_vars

----------------------------------------------------------------------------
(* Properties of the formula analysis *)

\* the cells of a grid in row-major order
CellsInOrder(g) == Flatten(g.rows)

ClaimedFormulaCell(cell) == cell.k = "str" /\ Len(cell.s) > 0 /\ cell.s[1] = "="

\* a run of upper-case letters s[a..b] that no upper-case letter precedes and
\* that '(' follows
ClaimedRun(s, a, b) ==
    /\ a <= b /\ b < Len(s)
    /\ \A i \in a..b : IsUpper(s[i])
    /\ a = 1 \/ ~IsUpper(s[a - 1])
    /\ s[b + 1] = "("

\* where the function names occur: <<cell, start, name>>
ClaimedOccurrencesIn(s, i) ==
    {<<i, p[1], SubSeq(s, p[1], p[2])>> :
        p \in {q \in (1..Len(s)) \X (1..Len(s)) : ClaimedRun(s, q[1], q[2])}}

ClaimedOccurrences(cells) ==
    UNION {ClaimedOccurrencesIn(cells[i].s, i) :
              i \in {x \in 1..Len(cells) : ClaimedFormulaCell(cells[x])}}

Before(o1, o2) == o1[1] < o2[1] \/ (o1[1] = o2[1] /\ o1[2] < o2[2])

\* the first occurrence of a name
FirstOccurrence(name, occs) ==
    CHOOSE o \in occs : o[3] = name /\ \A o2 \in occs : o2[3] = name => ~Before(o2, o)

\* C19: formulaCount is the number of cells that are strings starting with
\* '=', hasFormulas is true exactly when it is positive, and the function
\* names are, once each and in order of first appearance, the runs of
\* upper-case letters directly followed by '(' in those cells; an absent
\* formula grid gives false, 0 and no names.
C19_FormulaCountAndFunctionNames ==
    analyzed =>
        LET fa == result.formulaAnalysis
        IN  IF rawFormulas.k # "array"
            THEN fa = [hasFormulas |-> FALSE, formulaCount |-> 0, types |-> <<>>]
            ELSE LET cells == CellsInOrder(rawFormulas)
                     occs == ClaimedOccurrences(cells)
                 IN  /\ fa.formulaCount =
                           Cardinality({i \in 1..Len(cells) : ClaimedFormulaCell(cells[i])})
                     /\ fa.hasFormulas <=> fa.formulaCount > 0
                     /\ {fa.types[k] : k \in 1..Len(fa.types)} = {o[3] : o \in occs}
                     /\ \A j, k \in 1..Len(fa.types) :
                           j < k => /\ fa.types[j] # fa.types[k]
                                    /\ Before(FirstOccurrence(fa.types[j], occs),
                                              FirstOccurrence(fa.types[k], occs))

\* =IF(SUM(A1)>0,MAX(B1),0) before =SUM(B1): two formula cells, SUM once
C19_Witness ==
    /\ analyzed
    /\ rawFormulas.k = "array"
    /\ CellsInOrder(rawFormulas) = <<Str(<<"=", "I", "F", "(", "S", "U", "M", "(", "A", "1", ")", ">", "0", ",", "M", "A", "X", "(", "B", "1", ")", ",", "0", ")">>), Str(<<"=", "S", "U", "M", "(", "B", "1", ")">>)>>
    /\ result.formulaAnalysis =
          [hasFormulas |-> TRUE, formulaCount |-> 2,
           types |-> <<<<"I", "F">>, <<"S", "U", "M">>, <<"M", "A", "X">>>>]

----------------------------------------------------------------------------
(* Absent and empty grids for the classifier, ranges without a cell for the
   read *)

EmptyCaseSheets == {<<<<Plain(Str(<<"I", "t", "e", "m">>)), v>>>> : v \in ValueCells}

EmptyCaseRanges ==
    {LoadedRange(1, 1, sz[1], sz[2], FALSE) : sz \in EmptyRangeSizes \cup {<<2, 2>>}}
    \cup {LoadedRange(1, 1, 1, 1, TRUE)}

InitEmpty ==
    /\ \E sheet \in EmptyCaseSheets :
          /\ rawValues \in {NullGrid, Grid(<<>>), ValuesOf(sheet)}
          /\ rawFormulas = FormulasOf(sheet)
          /\ numberFormats = FormatsOf(sheet)
    /\ engineDates \in SUBSET EngineDependentDates
    /\ result = EmptyResult
    /\ analyzed = FALSE
    /\ InitCellIdle
    /\ InitReadIdle
    /\ InitChatIdle

NextEmpty ==
    \/ Analyze
    \/ \E r \in EmptyCaseRanges : SelectRange(r)
    \/ \E r \in EmptyCaseRanges : UsedRangeChanges(r)
    \/ \E b \in BOOLEAN, syncOk \in BOOLEAN : readCurrentWorksheetDataEnhanced(b, syncOk)

SpecEmpty == InitEmpty /\ [][NextEmpty]_vars

----------------------------------------------------------------------------
(* Properties of the empty result, the cache and the number formats *)

LastResolvedValue ==
    WorksheetData([original |-> origRange, range |-> range,
                   isSelection |-> isSelection, isSampled |-> isSampled])

\* C22: the cached result is always null or the complete value of one read;
\* every change of it is to null or to the value of a read that resolved, and
\* a read that rejects leaves it as it was.
C22_CacheIsNullOrOneCompleteRead ==
    /\ [](\/ currentWorksheetData = NoWorksheetData
          \/ readDone /\ currentWorksheetData = LastResolvedValue)
    /\ [][/\ (lastReadRejected' /\ ~lastReadRejected)
                => currentWorksheetData' = currentWorksheetData
          /\ currentWorksheetData' # currentWorksheetData
                => \/ currentWorksheetData' = NoWorksheetData
                   \/ ~lastReadRejected' /\ currentWorksheetData' = LastResolvedValue']_vars

\* a read rejected after a read of a sampled range had filled the cache
C22_Witness ==
    /\ lastReadRejected
    /\ readDone
    /\ currentWorksheetData.kind = "data"
    /\ currentWorksheetData.isSampled

----------------------------------------------------------------------------
(* Grids of number formats, as one row or as one column, and the absent
   format grid *)

\* the largest number of cells of a grid of number formats
MaxFormatCells == 3

FormattedCells ==
    {Computed(Num(1), Num(1), f) :
        f \in {General, Str(<<>>), Str(<<"$", "#", ",", "#", "#", "0">>), Str(<<"0", "%">>), Str(<<"g", "e", "n", "e", "r", "a", "l">>)}}

RECURSIVE FormattedSeqsUpTo(_)
FormattedSeqsUpTo(n) ==
    IF n = 0 THEN {}
    ELSE {<<c>> : c \in FormattedCells}
         \cup {Append(cells, c) : cells \in FormattedSeqsUpTo(n - 1), c \in FormattedCells}

FormatSheets ==
    {AsRow(cells) : cells \in FormattedSeqsUpTo(MaxFormatCells)}
    \cup {AsColumn(cells) : cells \in FormattedSeqsUpTo(MaxFormatCells)}

InitFormats ==
    /\ \E sheet \in FormatSheets :
          /\ rawValues = ValuesOf(sheet)
          /\ rawFormulas = FormulasOf(sheet)
          /\ numberFormats \in {FormatsOf(sheet), NullGrid}
    /\ engineDates \in SUBSET EngineDependentDates
    /\ result = EmptyResult
    /\ analyzed = FALSE
    /\ InitCellIdle
    /\ InitReadIdle
    /\ InitChatIdle

SpecFormats == InitFormats /\ [][Next]_vars

\* the first place of a format in the grid, in row-major order
FirstPlace(f, formats) == CHOOSE i \in 1..Len(formats) :
    formats[i] = f /\ \A j \in 1..(i - 1) : formats[j] # f

\* C23: the format list holds, once each and in order of first appearance,
\* exactly the format strings of the grid that are non-empty and not
\* "General"; hasFormatting is true exactly when the list is not empty; an
\* absent format grid gives false and the empty list.
C23_DistinctFormatsInOrder ==
    analyzed =>
        LET fa == result.formatAnalysis
        IN  IF numberFormats.k # "array"
            THEN fa = [hasFormatting |-> FALSE, types |-> <<>>]
            ELSE LET formats == CellsInOrder(numberFormats)
                 IN  /\ {fa.types[k] : k \in 1..Len(fa.types)} =
                            {formats[i] : i \in {x \in 1..Len(formats) :
                                /\ formats[x].k = "str"
                                /\ formats[x].s # <<>>
                                /\ formats[x].s # <<"G", "e", "n", "e", "r", "a", "l">>}}
                     /\ fa.hasFormatting <=> Len(fa.types) > 0
                     /\ \A j, k \in 1..Len(fa.types) :
                           j < k => /\ fa.types[j] # fa.types[k]
                                    /\ FirstPlace(fa.types[j], formats)
                                           < FirstPlace(fa.types[k], formats)

\* the formats 0%, $#,##0 and 0% again give the list 0%, $#,##0
C23_Witness ==
    /\ analyzed
    /\ numberFormats.k = "array"
    /\ CellsInOrder(numberFormats) = <<Str(<<"0", "%">>), Str(<<"$", "#", ",", "#", "#", "0">>), Str(<<"0", "%">>)>>
    /\ result.formatAnalysis = [hasFormatting |-> TRUE, types |-> <<Str(<<"0", "%">>), Str(<<"$", "#", ",", "#", "#", "0">>)>>]

----------------------------------------------------------------------------
(* The header row and the quarterly series *)

\* the rows of the result other than the detected header row
RowsBelowHeader == SelectSeq(result.dataRows, LAMBDA rd : rd.rowIndex # headerRowFound)

\* C30 as claimed: every quarterly series of the result is the series of a
\* row other than the detected header row, so the header row is never
\* reported as a series.
C30_HeaderRowIsNoSeries ==
    analyzed =>
        \A k \in 1..Len(result.quarterlyData) :
            \E r \in 1..Len(RowsBelowHeader) :
                /\ result.quarterlyData[k].label = RowsBelowHeader[r].label
                /\ {result.quarterlyData[k].quarters[p].columnIndex :
                        p \in 1..Len(result.quarterlyData[k].quarters)}
                       = ClaimedPointColumns(RowsBelowHeader[r], result.columnHeaders)

----------------------------------------------------------------------------
(* AIService: the conversation history *)

MAX_HISTORY == 12

\* an entry of the history; the timestamp is left out
HistoryEntry(role, content) == [role |-> role, content |-> content]

\* addToConversationHistory keeping the oldest entries: slice(0, n) for slice(-n)
addToConversationHistoryKeepingOldest(history, role, content) ==
    LET pushed == Append(history, HistoryEntry(role, content))
    IN  IF Len(pushed) > MAX_HISTORY * 2
        THEN SubSeq(pushed, 1, MAX_HISTORY * 2)
        ELSE pushed

\* the history after addToConversationHistory(role, content)
addToConversationHistory(history, role, content) ==
    LET pushed == Append(history, HistoryEntry(role, content))
    IN  IF Len(pushed) > MAX_HISTORY * 2
        THEN SubSeq(pushed, Len(pushed) - (MAX_HISTORY * 2) + 1, Len(pushed))
        ELSE pushed

\* Math.floor(this.conversationHistory.length / 2)
getConversationLength(history) == Len(history) \div 2

\* the largest number of entries added between two clears
MaxAdds == 26

\* a call of addToConversationHistory as handleSendMessage makes them: 'user'
\* at any time, 'assistant' after a 'user'; the content is the number of the
\* call since the last clear
AddToHistory(role) ==
    /\ Len(added) < MaxAdds
    /\ role = "assistant" => (added # <<>> /\ added[Len(added)].role = "user")
    /\ conversationHistory' =
           addToConversationHistory(conversationHistory, role, Len(added) + 1)
    /\ added' = Append(added, HistoryEntry(role, Len(added) + 1))
    /\ UNCHANGED <<userInput, controlsEnabled, loadingShown, chatSession, sessions,
                   sends, started>>
    /\ UNCHANGED classifyVars
    /\ UNCHANGED readVars

clearConversation ==
    /\ conversationHistory' = <<>>
    /\ chatSession' = 0
    /\ added' = <<>>
    /\ UNCHANGED <<userInput, controlsEnabled, loadingShown, sessions, sends, started>>
    /\ UNCHANGED classifyVars
    /\ UNCHANGED readVars

InitHistory == InitClassifyIdle /\ InitReadIdle /\ InitChatIdle

NextHistory ==
    \/ \E role \in {"user", "assistant"} : AddToHistory(role)
    \/ clearConversation

SpecHistory == InitHistory /\ [][NextHistory]_vars

\* the last n entries of a sequence, all of them when it has fewer
LastEntries(seq, n) ==
    IF Len(seq) <= n THEN seq ELSE SubSeq(seq, Len(seq) - n + 1, Len(seq))

\* C29: the conversation history has at most 2 x MAX_HISTORY = 24 entries and
\* is, in order, the most recent min(n, 24) of the n entries added since the
\* last clear.
C29_HistoryIsLastTwentyFour ==
    /\ Len(conversationHistory) <= 24
    /\ conversationHistory = LastEntries(added, 24)

\* the twenty-fifth entry since the last clear pushed the first one out
C29_Witness ==
    /\ Len(added) = 25
    /\ Len(conversationHistory) = 24
    /\ conversationHistory[1].content = 2

----------------------------------------------------------------------------
(* The task pane: handleSendMessage, askGeminiWithContext and
   handleClearConversation, one step per await *)

MAX_CONTEXT_TOKENS == 32000

\* the largest number of messages the user sends
MaxMessages == 3

\* lengths of the contextual prompt on both sides of the limit
PromptLengths == {MAX_CONTEXT_TOKENS * 3, (MAX_CONTEXT_TOKENS * 3) + 1}

\* what a rejected sendMessage says: a message with 'chat' or 'session' in
\* it, or any other message
ErrorKinds == {"session", "other"}

\* error.message.includes('chat') || error.message.includes('session')
ResetsSession(errorKind) == errorKind = "session"

\* compressPrompt(originalPrompt, currentWorksheetData) reads userQuestion,
\* which is neither a parameter nor a variable in scope: it raises a
\* ReferenceError, whose message has neither 'chat' nor 'session' in it
compressPrompt == [raises |-> TRUE, errorKind |-> "other"]

\* model.startChat(...) followed by chatSession.sendMessage(systemPrompt)
NewSession ==
    [system |-> "pending", prompts |-> <<>>]

\* setControlsEnabled leaving the controls as they are
setControlsEnabledIgnored(enabled) == controlsEnabled' = controlsEnabled

setControlsEnabled(enabled) == controlsEnabled' = enabled

showLoading(show) == loadingShown' = show

\* the slot of the next call of handleSendMessage
FreeSlot(s) == sends[s].pc = "idle" /\ \A r \in 1..(s - 1) : sends[r].pc # "idle"

\* the user types a message into the input box
TypeMessage ==
    /\ controlsEnabled
    /\ userInput = 0
    /\ started < MaxMessages
    /\ userInput' = started + 1
    /\ UNCHANGED <<controlsEnabled, loadingShown, conversationHistory, added,
                   chatSession, sessions, sends, started>>
    /\ UNCHANGED classifyVars
    /\ UNCHANGED readVars

\* a click on the send button or Enter in the input box, which the browser
\* delivers only while the control is not disabled, with text in the box:
\* handleSendMessage up to `await dataService.readCurrentWorksheetDataEnhanced`
handleSendMessage(s, useSelection) ==
    /\ controlsEnabled
    /\ userInput # 0
    /\ FreeSlot(s)
    /\ userInput' = 0
    /\ setControlsEnabled(FALSE)
    /\ conversationHistory' = addToConversationHistory(conversationHistory, "user", userInput)
    /\ added' = Append(added, HistoryEntry("user", userInput))
    /\ showLoading(TRUE)
    /\ sends' = [sends EXCEPT ![s] =
                    [IdleSend EXCEPT !.pc = "reading", !.message = userInput,
                                     !.useSelection = useSelection]]
    /\ started' = started + 1
    /\ UNCHANGED <<chatSession, sessions>>
    /\ UNCHANGED classifyVars
    /\ UNCHANGED readVars

\* the catch and finally blocks of handleSendMessage after a rejection
SendFails(s, promptLength) ==
    /\ sends' = [sends EXCEPT ![s] = [@ EXCEPT !.pc = "idle", !.outcome = "failed",
                                                !.promptLength = promptLength]]
    /\ showLoading(FALSE)
    /\ setControlsEnabled(TRUE)
    /\ UNCHANGED <<userInput, conversationHistory, added, started>>

\* askGeminiWithContext from line 68 on, up to `await sendMessage(...)`: the
\* prompt is built, compressed when too long, and sent on this.chatSession
\* (a TypeError when that is null, which resets nothing that is not null)
BuildAndSendPrompt(s, session, sessionsNow, promptLength) ==
    IF promptLength > MAX_CONTEXT_TOKENS * 3 /\ compressPrompt.raises
    THEN /\ chatSession' = IF ResetsSession(compressPrompt.errorKind) THEN 0 ELSE session
         /\ sessions' = sessionsNow
         /\ SendFails(s, promptLength)
    ELSE IF session = 0
    THEN /\ chatSession' = 0
         /\ sessions' = sessionsNow
         /\ SendFails(s, promptLength)
    ELSE /\ chatSession' = session
         /\ sessions' = [sessionsNow EXCEPT ![session] =
                [@ EXCEPT !.prompts = Append(@, IF promptLength > MAX_CONTEXT_TOKENS * 3
                                                THEN "compressed" ELSE "contextual")]]
         /\ sends' = [sends EXCEPT ![s] =
                [@ EXCEPT !.pc = "awaitAnswer", !.promptLength = promptLength,
                          !.sent = IF promptLength > MAX_CONTEXT_TOKENS * 3
                                   THEN "compressed" ELSE "contextual"]]
         /\ UNCHANGED <<userInput, controlsEnabled, loadingShown, conversationHistory,
                        added, started>>

\* the read of handleSendMessage settles; when it resolved,
\* askGeminiWithContext runs up to its first await
ReadSettles(s, syncOk, promptLength) ==
    /\ sends[s].pc = "reading"
    /\ IF syncOk /\ ~SelectionTestRaises(sends[s].useSelection, selectedRange)
       THEN /\ ReadResolves(sends[s].useSelection)
            /\ IF chatSession = 0
               THEN /\ sessions' = Append(sessions, NewSession)
                    /\ chatSession' = Len(sessions) + 1
                    /\ sends' = [sends EXCEPT ![s] =
                           [@ EXCEPT !.pc = "awaitSystem", !.onSession = Len(sessions) + 1]]
                    /\ UNCHANGED <<userInput, controlsEnabled, loadingShown,
                                   conversationHistory, added, started>>
               ELSE BuildAndSendPrompt(s, chatSession, sessions, promptLength)
       ELSE /\ ReadRejects
            /\ SendFails(s, 0)
            /\ UNCHANGED <<chatSession, sessions>>
    /\ UNCHANGED classifyVars

\* `await this.chatSession.sendMessage(systemPrompt)` settles
SystemSettles(s, delivered, errorKind, promptLength) ==
    /\ sends[s].pc = "awaitSystem"
    /\ IF delivered
       THEN BuildAndSendPrompt(s, chatSession,
                [sessions EXCEPT ![sends[s].onSession].system = "delivered"],
                promptLength)
       ELSE /\ sessions' = [sessions EXCEPT ![sends[s].onSession].system = "failed"]
            /\ chatSession' = IF ResetsSession(errorKind) THEN 0 ELSE chatSession
            /\ SendFails(s, 0)
    /\ UNCHANGED classifyVars
    /\ UNCHANGED readVars

\* `await this.chatSession.sendMessage(contextualPrompt)` and `await
\* result.response` settle; answer is "text", "empty" (no text or only
\* whitespace) or "error"
AnswerSettles(s, answer, errorKind) ==
    /\ sends[s].pc = "awaitAnswer"
    /\ IF answer = "text"
       THEN /\ conversationHistory' =
                   addToConversationHistory(conversationHistory, "assistant", sends[s].message)
            /\ added' = Append(added, HistoryEntry("assistant", sends[s].message))
            /\ sends' = [sends EXCEPT ![s] = [@ EXCEPT !.pc = "idle", !.outcome = "answered"]]
            /\ showLoading(FALSE)
            /\ setControlsEnabled(TRUE)
            /\ UNCHANGED <<userInput, chatSession, sessions, started>>
       ELSE /\ chatSession' = IF answer = "error" /\ ResetsSession(errorKind)
                              THEN 0 ELSE chatSession
            /\ SendFails(s, sends[s].promptLength)
            /\ UNCHANGED sessions
    /\ UNCHANGED classifyVars
    /\ UNCHANGED readVars

\* a click on 'New Conversation', which is never disabled
handleClearConversation ==
    /\ conversationHistory' = <<>>
    /\ chatSession' = 0
    /\ added' = <<>>
    /\ currentWorksheetData' = NoWorksheetData
    /\ sends' = [s \in 1..MaxSends |->
                    IF sends[s].pc = "idle" THEN sends[s]
                    ELSE [sends[s] EXCEPT !.clearedDuring = TRUE]]
    /\ UNCHANGED <<userInput, controlsEnabled, loadingShown, sessions, started>>
    /\ UNCHANGED <<selectedRange, usedRange, shouldUseSelection, origRange, range,
                   isSelection, isSampled, readDone, readClassified, lastReadRejected>>
    /\ UNCHANGED classifyVars

InitChat == InitClassifyIdle /\ InitReadIdle /\ InitChatIdle

NextChat ==
    \/ TypeMessage
    \/ \E s \in 1..MaxSends, b \in BOOLEAN : handleSendMessage(s, b)
    \/ \E s \in 1..MaxSends, syncOk \in BOOLEAN, n \in PromptLengths :
          ReadSettles(s, syncOk, n)
    \/ \E s \in 1..MaxSends, delivered \in BOOLEAN, e \in ErrorKinds,
          n \in PromptLengths :
          SystemSettles(s, delivered, e, n)
    \/ \E s \in 1..MaxSends, answer \in {"text", "empty", "error"}, e \in ErrorKinds :
          AnswerSettles(s, answer, e)
    \/ handleClearConversation

SpecChat == InitChat /\ [][NextChat]_vars

----------------------------------------------------------------------------
(* Claims about the conversation *)

\* the calls of handleSendMessage that have not settled
InFlight == {s \in 1..MaxSends : sends[s].pc # "idle"}

\* C24: a contextual prompt longer than 3 * MAX_CONTEXT_TOKENS characters
\* is replaced by a compressed prompt that is sent on the chat session
C24_LongPromptIsSentCompressed ==
    \A s \in 1..MaxSends :
        sends[s].promptLength > MAX_CONTEXT_TOKENS * 3 => sends[s].sent = "compressed"

\* C25: every contextual or compressed prompt goes out on a session whose
\* system prompt was delivered
C25_PromptsFollowDeliveredSystemPrompt ==
    \A k \in 1..Len(sessions) :
        sessions[k].prompts # <<>> => sessions[k].system = "delivered"

\* C26: once a send during which handleClearConversation ran has settled,
\* the history is empty, the chat session is null and the cache is null
C26_ClearIsNotUndone ==
    \A s \in 1..MaxSends :
        sends[s].pc = "idle" /\ sends[s].clearedDuring =>
            /\ conversationHistory = <<>>
            /\ chatSession = 0
            /\ currentWorksheetData = NoWorksheetData

Alternates(history) ==
    \A i \in 1..Len(history) :
        history[i].role = IF i % 2 = 1 THEN "user" ELSE "assistant"

\* the questions of the history that are followed by their answer
CompletedExchanges(history) ==
    {i \in 1..(Len(history) - 1) :
        /\ history[i].role = "user"
        /\ history[i + 1].role = "assistant"
        /\ history[i + 1].content = history[i].content}

\* C27: with no send in flight the history alternates user and assistant
\* entries, starting with a user entry, and getConversationLength is the
\* number of completed exchanges in it
C27_HistoryAlternates ==
    InFlight = {} =>
        /\ Alternates(conversationHistory)
        /\ getConversationLength(conversationHistory)
               = Cardinality(CompletedExchanges(conversationHistory))

\* C28: while a send is in flight the controls are disabled and the loading
\* overlay is shown, when none is in flight the controls are enabled and the
\* overlay is hidden, and at most one send is in flight
C28_ControlsFollowTheSend ==
    /\ Cardinality(InFlight) <= 1
    /\ InFlight # {} => ~controlsEnabled /\ loadingShown
    /\ InFlight = {} => controlsEnabled /\ ~loadingShown

\* the second send waits for its answer after the first one failed
C28_Witness ==
    /\ started = 2
    /\ sends[1].pc = "awaitAnswer"
    /\ sends[1].message = 2
    /\ ~controlsEnabled
    /\ loadingShown

====
